---- MODULE Spec2Model ----
(***************************************************************************)
(* Offline Project & Task Worklog (assets/js/app.js): the task/timer state *)
(* engine.  The state is the script's `state` object, the two localStorage *)
(* slots, the browser's table of live setInterval callbacks and the clock. *)
(* Each event handler of the script is one action.                          *)
(*                                                                         *)
(* Strings are sequences of characters so that String.prototype.trim is    *)
(* computed; `null` is the empty tuple and a present value v is <<v>>; a   *)
(* task is a record whose startedAt field exists only while the property   *)
(* exists on the JavaScript object.                                        *)
(***************************************************************************)
EXTENDS Integers, Sequences, FiniteSets, TLC

VARIABLES
    now,         \* Date.now()
    tasks,       \* state.tasks
    timers,      \* state.timers : Map id -> interval handle, as a set of [id, handle]
    intervals,   \* the browser's live setInterval callbacks, as a set of [handle, id]
    pendingLog,  \* state.pendingLog : <<>> (null) or <<[id, duration]>>
    stored,      \* localStorage[storageKey] : <<>> (absent) or <<[tasks |-> ...]>>
    counter,     \* localStorage[taskCounterKey] : 0 (absent) or the stored integer
    taskCode,    \* value of the form's taskCode input
    uuids,       \* how many ids crypto.randomUUID() has handed out
    fetches,     \* per file of bootstrapApp's Promise.all: "pending", "json" (the
                 \* parsed file) or "fallback" (the built-in default)
    attached,    \* attachEvents() has run: the handlers are wired
    view,        \* what renderTable() put in the table: <<>> before the first render
    download,    \* the file exportTask() handed to the browser last: <<>> when none
    storageFull, \* localStorage.setItem throws (quota exceeded): TRUE or FALSE
    issued,      \* history: the numbers nextTaskCode() has returned, oldest first
    opened,      \* history: per id, <<t>> when a session was begun at t and not yet stopped
    awaiting,    \* history: the stopped session not yet confirmed or discarded
    credited,    \* history: per id, sum of the measured durations of the sessions
                 \* confirmed for the task that carries the id (0 again once it is deleted)
    committed    \* history: per id, number of sessions confirmed for that task

\* the part of the state that lives in the page
page == <<fetches, attached, view, download>>

vars == <<now, tasks, timers, intervals, pendingLog, stored, counter, taskCode,
          uuids, page, storageFull, issued, opened, awaiting, credited, committed>>

---------------------------------------------------------------------------
(* Bounds of the model *)

MaxTicks == 2

MaxCreates == 1

MaxCounter == 3

MaxLogs == 2

\* One clock advance, in milliseconds
ClockStep == 700

---------------------------------------------------------------------------
(* Identifiers and input sets *)

SeedId == <<"sample-project", 0>>

UuidOf(n) == <<"uuid", n>>

AllIds == {SeedId} \cup {UuidOf(n) : n \in 1..MaxCreates}

TypeInputs == {"project", "task"}

NameInputs == {<<>>, <<"A", " ">>}

ReferenceInputs == {<<>>, <<"R">>}

CriticalInputs == {"no"}

DescriptionInputs == {<<" ", "d">>}

CommentInputs == {<<>>, <<" ", " ">>, <<" ", "k">>}

---------------------------------------------------------------------------
(* Pure helpers *)

RECURSIVE TrimStart(_)
TrimStart(s) ==
    IF s = <<>> THEN s
    ELSE IF Head(s) = " " THEN TrimStart(Tail(s)) ELSE s

RECURSIVE TrimEnd(_)
TrimEnd(s) ==
    IF s = <<>> THEN s
    ELSE IF s[Len(s)] = " " THEN TrimEnd(SubSeq(s, 1, Len(s) - 1)) ELSE s

\* String.prototype.trim
Trim(s) == TrimEnd(TrimStart(s))

Has(rec, f) == f \in DOMAIN rec

\* obj[f] = v
SetField(rec, f, v) ==
    [g \in DOMAIN rec \cup {f} |-> IF g = f THEN v ELSE rec[g]]

\* delete obj[f]
DeleteField(rec, f) == [g \in DOMAIN rec \ {f} |-> rec[g]]

\* Array.prototype.findIndex((t) => t.id === id), 1-based; 0 when none
FindIndex(ts, id) ==
    IF \E i \in 1..Len(ts) : ts[i].id = id
    THEN CHOOSE i \in 1..Len(ts) :
            /\ ts[i].id = id
            /\ \A j \in 1..(i - 1) : ts[j].id # id
    ELSE 0

\* mutant: push for unshift
Push(seq, x) == Append(seq, x)

\* Array.prototype.unshift
Unshift(seq, x) == <<x>> \o seq

\* Array.prototype.splice(index, 1)
Splice1(seq, i) == SubSeq(seq, 1, i - 1) \o SubSeq(seq, i + 1, Len(seq))

\* the array with element i replaced (the handlers mutate the found task in place)
Put(ts, i, t) == [ts EXCEPT ![i] = t]

Max(a, b) == IF a >= b THEN a ELSE b

\* formatDuration: HH:MM:SS as the three numbers it prints
formatDuration(ms) ==
    LET totalSeconds == ms \div 1000
    IN  <<totalSeconds \div 3600, (totalSeconds % 3600) \div 60, totalSeconds % 60>>

\* new Date(t).toLocaleDateString(): the calendar day of t
toLocaleDateString(t) == <<"day", t \div 86400000>>

\* Digits of n, most significant first
RECURSIVE DigitsOf(_)
DigitsOf(n) ==
    LET d == CASE n % 10 = 0 -> "0" [] n % 10 = 1 -> "1" [] n % 10 = 2 -> "2"
               [] n % 10 = 3 -> "3" [] n % 10 = 4 -> "4" [] n % 10 = 5 -> "5"
               [] n % 10 = 6 -> "6" [] n % 10 = 7 -> "7" [] n % 10 = 8 -> "8"
               [] OTHER -> "9"
    IN  IF n < 10 THEN <<d>> ELSE DigitsOf(n \div 10) \o <<d>>

\* String(n).padStart(3, '0')
RECURSIVE PadStart3(_)
PadStart3(s) == IF Len(s) >= 3 THEN s ELSE PadStart3(<<"0">> \o s)

---------------------------------------------------------------------------
(* normalizeTask *)

\* Number.isFinite(task[f]).  A value it rejects (undefined, null, a string,
\* NaN, an infinity) is modelled by the absent property: every such value takes
\* the same branch.
IsFinite(task, f) == Has(task, f) /\ task[f] \in Int

\* mutant: the creation time is always the clock
CreatedAtAlwaysNow(task, t) == t

\* const createdAt = Number.isFinite(task.createdAt) ? task.createdAt : now
CreatedAtOf(task, t) == IF IsFinite(task, "createdAt") THEN task.createdAt ELSE t

\* the object literal `normalized`
Normalized(task, t) ==
    LET createdAt == CreatedAtOf(task, t)
        lastUpdatedMs == IF IsFinite(task, "lastUpdatedMs")
                         THEN task.lastUpdatedMs ELSE createdAt
        name == IF Has(task, "name") /\ Trim(task.name) # <<>>
                THEN Trim(task.name) ELSE <<"Untitled item">>
    IN  [f \in DOMAIN task \cup {"name", "description", "logs", "elapsedMs",
                               "isRunning", "isArchived", "createdAt",
                               "lastUpdatedMs", "lastChecked"} |->
                CASE f = "name" -> name
                  [] f = "description" ->
                        IF Has(task, "description") THEN task.description ELSE <<>>
                  [] f = "logs" -> IF Has(task, "logs") THEN task.logs ELSE <<>>
                  [] f = "elapsedMs" ->
                        IF IsFinite(task, "elapsedMs") THEN task.elapsedMs ELSE 0
                  [] f = "isRunning" -> FALSE
                  [] f = "isArchived" ->
                        IF Has(task, "isArchived") THEN task.isArchived = TRUE ELSE FALSE
                  [] f = "createdAt" -> createdAt
                  [] f = "lastUpdatedMs" -> lastUpdatedMs
                  [] f = "lastChecked" ->
                        IF Has(task, "lastChecked") THEN task.lastChecked ELSE <<>>
                  [] OTHER -> task[f]]

\* mutant: startedAt is left on the object
normalizeTaskKeepingStartedAt(task, t) == Normalized(task, t)

normalizeTask(task, t) == DeleteField(Normalized(task, t), "startedAt")

\* defaultData.bootstrap.tasks, built when the script is evaluated at time t
SeedTasks(t) ==
    << [id |-> SeedId, type |-> "project", name |-> <<"Sample Project">>,
        reference |-> <<"PRJ-001">>, isCritical |-> TRUE,
        description |->
            <<"You can edit or remove this project once you add your own items.">>,
        elapsedMs |-> 0, logs |-> <<>>, isRunning |-> FALSE, isArchived |-> FALSE, lastLog |-> <<>>,
        createdAt |-> t, lastUpdatedMs |-> t, lastChecked |-> <<>>] >>

\* the array mapped through normalizeTask
NormalizeAll(ts, t) == [i \in 1..Len(ts) |-> normalizeTask(ts[i], t)]

\* loadFromStorage() and the choice between saved and seed tasks
SeededTasks(slot, t) ==
    IF slot # <<>> /\ Len(slot[1].tasks) > 0 THEN slot[1].tasks ELSE SeedTasks(t)

\* persist(): JSON.stringify({tasks}) keeps every own property of every task
Payload(ts) == <<[tasks |-> ts]>>

\* localStorage.setItem(key, value): the slot afterwards.  When the quota is
\* exceeded setItem throws, the slot keeps its content and the exception leaves
\* the calling handler at that point.
SetItem(slot, value) == IF storageFull THEN slot ELSE value

---------------------------------------------------------------------------
(* Initial state: bootstrapApp() on a profile with nothing in localStorage *)

NoSessions == [id \in AllIds |-> <<>>]

\* the six files bootstrapApp() fetches
Files == {"settings", "config", "preferences", "prompts", "api-responses", "data-store"}

\* the script's variables and the browser after bootstrapApp() has run on the
\* content `slot` of the tasks slot, the counter slot being empty and every
\* fetch having fallen back to its default (no data/ file is served).  The
\* table and the downloads are followed in SpecTable, SpecDuplicates and
\* SpecExport only: elsewhere view and download keep these values.
Booted(slot) ==
    /\ now = ClockStep
    /\ tasks = NormalizeAll(SeededTasks(slot, ClockStep), ClockStep)
    /\ timers = {}
    /\ intervals = {}
    /\ pendingLog = <<>>
    /\ stored = slot
    /\ counter = 0
    /\ taskCode = <<>>
    /\ uuids = 0
    /\ issued = <<>>
    /\ fetches = [file \in Files |-> "fallback"]
    /\ attached = TRUE
    /\ view = <<>>
    /\ download = <<>>
    /\ opened = NoSessions
    /\ awaiting = <<>>
    /\ credited = [id \in AllIds |-> 0]
    /\ committed = [id \in AllIds |-> 0]

Init == Booted(<<>>) /\ storageFull = FALSE

---------------------------------------------------------------------------
(* The clock *)

ClockAdvance ==
    /\ now + ClockStep <= MaxTicks * ClockStep
    /\ now' = now + ClockStep
    /\ UNCHANGED <<tasks, timers, intervals, pendingLog, stored, counter, taskCode,
                   uuids, page, storageFull, issued, opened, awaiting, credited, committed>>

---------------------------------------------------------------------------
(* Page reload: every script variable is rebuilt, the live intervals die,  *)
(* localStorage survives, bootstrapApp() runs again                        *)

Reload ==
    /\ tasks' = NormalizeAll(SeededTasks(stored, now), now)
    /\ timers' = {}
    /\ intervals' = {}
    /\ pendingLog' = <<>>
    /\ taskCode' = <<>>
    /\ opened' = NoSessions
    /\ awaiting' = <<>>
    /\ UNCHANGED <<page, storageFull, issued, now, stored, counter, uuids, credited, committed>>

---------------------------------------------------------------------------
(* The task reference counter and the task form *)

\* mutant: the stored counter is written back as it was read
NextCounterStuck == Max(counter, 1)

\* nextTaskCode(): the value written back to the counter slot
NextCounter == counter + 1

\* nextTaskCode(): the string returned
CodeOf(n) == PadStart3(DigitsOf(n))

\* change of itemType: toggleFormFields(type); when setItem throws inside
\* nextTaskCode() the input keeps its value
ItemTypeChange(type) ==
    /\ IF type = "project" \/ storageFull
       THEN UNCHANGED <<counter, taskCode, issued>>
       ELSE /\ counter < MaxCounter
            /\ counter' = NextCounter
            /\ taskCode' = CodeOf(NextCounter)
            /\ issued' = Append(issued, NextCounter)
    /\ UNCHANGED <<page, storageFull, now, tasks, timers, intervals, pendingLog, stored, uuids,
                   opened, awaiting, credited, committed>>

\* the object literal handed to normalizeTask by the submit handler
NewTask(id, type, name, description, critical, reference, t) ==
    [id |-> id, type |-> type, name |-> name, description |-> description,
     isCritical |-> critical,
     reference |-> reference, elapsedMs |-> 0, logs |-> <<>>, isRunning |-> FALSE,
     lastLog |-> <<>>, createdAt |-> t, lastUpdatedMs |-> t, lastChecked |-> <<>>]

\* submit of taskForm.  The task literal is evaluated in order: randomUUID()
\* first, nextTaskCode() when the taskCode input is empty; a setItem that throws
\* there, or in persist(), ends the handler at that point.
TaskFormSubmit(type, nameIn, descriptionIn, referenceIn, criticalIn) ==
    LET name == Trim(nameIn)
        description == Trim(descriptionIn)
        reference == Trim(referenceIn)
        generate == type # "project" /\ taskCode = <<>>
        code == IF taskCode # <<>> THEN taskCode ELSE CodeOf(NextCounter)
        ref == IF type = "project" THEN reference ELSE <<"Task #">> \o code
        task == normalizeTask(
                    NewTask(UuidOf(uuids + 1), type, name, description,
                            criticalIn = "yes", ref, now),
                    now)
    IN  IF name = <<>>
        THEN UNCHANGED vars
        ELSE IF type = "project" /\ reference = <<>>
        THEN UNCHANGED vars
        ELSE IF generate /\ storageFull
        THEN /\ uuids' = uuids + 1
             /\ UNCHANGED <<page, storageFull, issued, now, tasks, timers, intervals,
                            pendingLog, stored, counter, taskCode, opened, awaiting,
                            credited, committed>>
        ELSE /\ generate => counter < MaxCounter
             /\ uuids' = uuids + 1
             /\ counter' = IF generate THEN NextCounter ELSE counter
             /\ issued' = IF generate THEN Append(issued, NextCounter) ELSE issued
             /\ tasks' = Unshift(tasks, task)
             /\ stored' = SetItem(stored, Payload(tasks'))
             /\ taskCode' = IF storageFull THEN taskCode ELSE <<>>
             /\ UNCHANGED <<page, storageFull, now, timers, intervals, pendingLog, opened,
                            awaiting, credited, committed>>

---------------------------------------------------------------------------
(* Timers *)

\* state.timers.has(id)
TimersHas(id) == \E e \in timers : e.id = id

\* state.timers.get(id), as the set holding the handle, empty for undefined
TimersGet(id) == {e.handle : e \in {x \in timers : x.id = id}}

\* clearInterval(h) for the handles in hs: clearing undefined clears nothing
ClearInterval(live, hs) == {i \in live : i.handle \notin hs}

\* the handle setInterval returns: one that no live interval carries
FreshHandle(live) ==
    CHOOSE h \in 1..(Cardinality(live) + 1) : \A i \in live : i.handle # h

\* state.timers.set(id, h)
TimersSet(map, id, h) == {e \in map : e.id # id} \cup {[id |-> id, handle |-> h]}

\* state.timers.delete(id)
TimersDelete(map, id) == {e \in map : e.id # id}

\* mutant: a running task is started again
StartRefusedOnlyWhenArchived(task) == task.isArchived

\* mutant: the archive flag is not looked at
StartRefusedOnlyWhileRunning(task) == task.isRunning

\* startTimer's early return, the task having been found
StartRefused(task) == task.isRunning \/ task.isArchived

\* startTimer's writes to the task
Started(task, t) ==
    SetField([task EXCEPT !.isRunning = TRUE, !.lastUpdatedMs = t], "startedAt", t)

startTimer(id) ==
    LET index == FindIndex(tasks, id)
        task == tasks[index]
        cleared == IF TimersHas(id) THEN ClearInterval(intervals, TimersGet(id))
                   ELSE intervals
        interval == FreshHandle(cleared)
    IN  IF index = 0 \/ StartRefused(task)
        THEN UNCHANGED vars
        ELSE /\ tasks' = Put(tasks, index, Started(task, now))
             /\ intervals' = cleared \cup {[handle |-> interval, id |-> id]}
             /\ timers' = TimersSet(timers, id, interval)
             /\ stored' = SetItem(stored, Payload(tasks'))
             /\ opened' = [opened EXCEPT ![id] = <<now>>]
             /\ UNCHANGED <<page, storageFull, issued, now, pendingLog, counter, taskCode, uuids, awaiting,
                            credited, committed>>

\* stopTimer: const duration = Date.now() - task.startedAt
SessionDuration(task, t) == t - task.startedAt

\* stopTimer's writes to the task
Stopped(task, t) ==
    DeleteField([task EXCEPT !.isRunning = FALSE, !.lastUpdatedMs = t], "startedAt")

stopTimer(id) ==
    LET index == FindIndex(tasks, id)
        task == tasks[index]
        measured == IF opened[id] = <<>> THEN 0 ELSE now - opened[id][1]
    IN  IF index = 0 \/ ~task.isRunning
        THEN UNCHANGED vars
        ELSE /\ intervals' = ClearInterval(intervals, TimersGet(id))
             /\ timers' = TimersDelete(timers, id)
             /\ tasks' = Put(tasks, index, Stopped(task, now))
             /\ pendingLog' = <<[id |-> task.id, duration |-> SessionDuration(task, now)]>>
             /\ opened' = [opened EXCEPT ![id] = <<>>]
             /\ awaiting' = <<[id |-> id, duration |-> measured]>>
             /\ UNCHANGED <<page, storageFull, issued, now, stored, counter, taskCode, uuids, credited, committed>>

---------------------------------------------------------------------------
(* The log dialog *)

\* mutant: the value is taken untrimmed
CommentUntrimmed(value) == value

\* logForm.elements.logComment.value.trim()
CommentOf(value) == Trim(value)

\* mutant: the comment is not required
CommentNeverMissing(comment) == FALSE

\* if (!comment): the comment is required
CommentMissing(comment) == comment = <<>>

\* finalizeLog's log entry
Entry(duration, comment, t) ==
    [date |-> toLocaleDateString(t), duration |-> formatDuration(duration),
     comment |-> comment, timestamp |-> t]

\* mutant: elapsedMs = duration for elapsedMs += duration
FinalizedOverwriting(task, duration, comment, t) ==
    LET entry == Entry(duration, comment, t)
    IN  [task EXCEPT !.elapsedMs = duration,
                     !.logs = Unshift(@, entry),
                     !.lastLog = <<entry.date, entry.duration>>,
                     !.lastUpdatedMs = entry.timestamp,
                     !.lastChecked = <<entry.timestamp>>]

\* mutant: the new entry replaces the log
FinalizedForgetful(task, duration, comment, t) ==
    LET entry == Entry(duration, comment, t)
    IN  [task EXCEPT !.elapsedMs = @ + duration,
                     !.logs = <<entry>>,
                     !.lastLog = <<entry.date, entry.duration>>,
                     !.lastUpdatedMs = entry.timestamp,
                     !.lastChecked = <<entry.timestamp>>]

\* finalizeLog's writes to the task
Finalized(task, duration, comment, t) ==
    LET entry == Entry(duration, comment, t)
    IN  [task EXCEPT !.elapsedMs = @ + duration,
                     !.logs = Unshift(@, entry),
                     !.lastLog = <<entry.date, entry.duration>>,
                     !.lastUpdatedMs = entry.timestamp,
                     !.lastChecked = <<entry.timestamp>>]

\* submit of logForm, finalizeLog(comment) included
logFormSubmit(value) ==
    LET comment == CommentOf(value)
        id == pendingLog[1].id
        duration == pendingLog[1].duration
        index == FindIndex(tasks, id)
    IN  IF pendingLog = <<>> \/ CommentMissing(comment) \/ index = 0
        THEN UNCHANGED vars
        ELSE /\ Len(tasks[index].logs) < MaxLogs
             /\ tasks' = Put(tasks, index, Finalized(tasks[index], duration, comment, now))
             /\ pendingLog' = <<>>
             /\ stored' = SetItem(stored, Payload(tasks'))
             /\ awaiting' = <<>>
             /\ credited' = IF awaiting = <<>> THEN credited
                            ELSE [credited EXCEPT ![awaiting[1].id] = @ + awaiting[1].duration]
             /\ committed' = IF awaiting = <<>> THEN committed
                             ELSE [committed EXCEPT ![awaiting[1].id] = @ + 1]
             /\ UNCHANGED <<page, storageFull, issued, now, timers, intervals, counter, taskCode, uuids, opened>>

\* mutant: the discarded session is credited all the same
DiscardedButCredited(task, t) ==
    [task EXCEPT !.isRunning = FALSE,
                 !.elapsedMs = @ + pendingLog[1].duration,
                 !.lastLog = <<"Discarded session">>,
                 !.lastUpdatedMs = t]

\* the discard handler's writes to the task
Discarded(task, t) ==
    [task EXCEPT !.isRunning = FALSE,
                 !.lastLog = <<"Discarded session">>,
                 !.lastUpdatedMs = t]

\* click on discardLog
discardClick ==
    LET index == FindIndex(tasks, pendingLog[1].id)
    IN  IF pendingLog = <<>>
        THEN UNCHANGED vars
        ELSE /\ tasks' = IF index # 0 THEN Put(tasks, index, Discarded(tasks[index], now))
                         ELSE tasks
             /\ pendingLog' = <<>>
             /\ stored' = SetItem(stored, Payload(tasks'))
             /\ awaiting' = <<>>
             /\ UNCHANGED <<page, storageFull, issued, now, timers, intervals, counter, taskCode, uuids, opened,
                            credited, committed>>

---------------------------------------------------------------------------
(* Check, archive, delete *)

\* task.lastUpdatedMs || 0
OrZero(v) == IF v = 0 THEN 0 ELSE v

\* markChecked's writes to the task
Checked(task, t) ==
    [task EXCEPT !.lastChecked = <<t>>,
                 !.lastUpdatedMs = Max(OrZero(@), t)]

markChecked(id) ==
    LET index == FindIndex(tasks, id)
    IN  IF index = 0
        THEN UNCHANGED vars
        ELSE /\ tasks' = Put(tasks, index, Checked(tasks[index], now))
             /\ stored' = SetItem(stored, Payload(tasks'))
             /\ UNCHANGED <<page, storageFull, issued, now, timers, intervals, pendingLog, counter, taskCode, uuids,
                            opened, awaiting, credited, committed>>

\* archiveTask's refusal, the task having been found
ArchiveRefused(task) == task.isRunning

\* mutant: archiving is never undone
ArchivedForGood(task, t) ==
    [task EXCEPT !.isArchived = TRUE, !.lastUpdatedMs = t]

\* archiveTask's writes to the task
Archived(task, t) ==
    [task EXCEPT !.isArchived = ~@, !.lastUpdatedMs = t]

archiveTask(id) ==
    LET index == FindIndex(tasks, id)
    IN  IF index = 0 \/ ArchiveRefused(tasks[index])
        THEN UNCHANGED vars
        ELSE /\ tasks' = Put(tasks, index, Archived(tasks[index], now))
             /\ stored' = SetItem(stored, Payload(tasks'))
             /\ UNCHANGED <<page, storageFull, issued, now, timers, intervals, pendingLog, counter, taskCode, uuids,
                            opened, awaiting, credited, committed>>

\* deleteTask; confirmDelete is the operator's answer to confirm(...)
deleteTask(id, confirmDelete) ==
    LET index == FindIndex(tasks, id)
    IN  IF index = 0 \/ tasks[index].isRunning \/ ~confirmDelete
        THEN UNCHANGED vars
        ELSE /\ intervals' = IF TimersHas(id) THEN ClearInterval(intervals, TimersGet(id))
                             ELSE intervals
             /\ timers' = IF TimersHas(id) THEN TimersDelete(timers, id) ELSE timers
             /\ tasks' = Splice1(tasks, index)
             /\ stored' = SetItem(stored, Payload(tasks'))
             /\ credited' = [credited EXCEPT ![id] = 0]
             /\ committed' = [committed EXCEPT ![id] = 0]
             /\ UNCHANGED <<page, storageFull, issued, now, pendingLog, counter, taskCode, uuids, opened, awaiting>>

---------------------------------------------------------------------------
(* The specification *)

Next ==
    \/ ClockAdvance
    \/ Reload
    \/ /\ uuids < MaxCreates
       /\ \E type \in TypeInputs, nameIn \in NameInputs,
             descriptionIn \in DescriptionInputs,
             referenceIn \in ReferenceInputs, criticalIn \in CriticalInputs :
               TaskFormSubmit(type, nameIn, descriptionIn, referenceIn, criticalIn)
    \/ \E id \in AllIds : startTimer(id)
    \/ \E id \in AllIds : stopTimer(id)
    \/ \E value \in CommentInputs : logFormSubmit(value)
    \/ discardClick
    \/ \E id \in AllIds : markChecked(id)
    \/ \E id \in AllIds : archiveTask(id)
    \/ \E id \in AllIds, confirmDelete \in BOOLEAN : deleteTask(id, confirmDelete)

Spec == Init /\ [][Next]_vars

---------------------------------------------------------------------------
(* The same handlers on a profile whose storage quota is used up: every    *)
(* localStorage.setItem throws.  Nothing is ever saved, so a reload starts *)
(* again from the seed; the handlers are followed within one page load.    *)

InitFull == Booted(<<>>) /\ storageFull = TRUE

NextFull ==
    \/ ClockAdvance
    \/ /\ uuids < MaxCreates
       /\ \E type \in TypeInputs, nameIn \in NameInputs,
             descriptionIn \in DescriptionInputs,
             referenceIn \in ReferenceInputs, criticalIn \in CriticalInputs :
               TaskFormSubmit(type, nameIn, descriptionIn, referenceIn, criticalIn)
    \/ \E id \in AllIds : startTimer(id)
    \/ \E id \in AllIds : stopTimer(id)
    \/ \E value \in CommentInputs : logFormSubmit(value)
    \/ discardClick
    \/ \E id \in AllIds : markChecked(id)
    \/ \E id \in AllIds : archiveTask(id)
    \/ \E id \in AllIds, confirmDelete \in BOOLEAN : deleteTask(id, confirmDelete)

SpecFull == InitFull /\ [][NextFull]_vars

---------------------------------------------------------------------------
(* The task form alone: type changes (each change to "task" previews a     *)
(* code), submits and reloads                                              *)

MaxFormCreates == 2

NextForm ==
    \/ ClockAdvance
    \/ Reload
    \/ \E type \in TypeInputs : ItemTypeChange(type)
    \/ /\ uuids < MaxFormCreates
       /\ \E type \in TypeInputs, nameIn \in NameInputs,
             descriptionIn \in DescriptionInputs,
             referenceIn \in ReferenceInputs, criticalIn \in CriticalInputs :
               TaskFormSubmit(type, nameIn, descriptionIn, referenceIn, criticalIn)

SpecForm == Init /\ [][NextForm]_vars

---------------------------------------------------------------------------
(* Loading a payload the script did not write: the tasks slot holds one    *)
(* raw record, any combination of the field values below.  An empty option *)
(* is the absent property.                                                 *)

RawCreatedAt == {<<>>, <<500>>}

RawLastUpdatedMs == {<<>>, <<300>>, <<2000>>}

RawElapsedMs == {<<>>, <<-5>>, <<40>>}

RawName == {<<>>, << <<" ", "n", " ">> >>}

RawDescription == {<<>>, << <<"d">> >>}

RawStartedAt == {<<>>, <<100>>}

RawIsArchived == {<<>>, <<TRUE>>}

RawLogs == {<<>>, << <<>> >>}

\* the record with property f set when the option holds a value
WithOption(rec, f, option) == IF option = <<>> THEN rec ELSE SetField(rec, f, option[1])

\* a stored record: a task that was running when startedAt is there
RawTask(createdAt, lastUpdatedMs, elapsedMs, name, description, startedAt, isArchived, logs) ==
    WithOption(WithOption(WithOption(WithOption(WithOption(WithOption(WithOption(
    WithOption([id |-> SeedId, type |-> "project", reference |-> <<"PRJ-001">>,
                isCritical |-> FALSE, isRunning |-> startedAt # <<>>,
                lastLog |-> <<>>],
        "createdAt", createdAt), "lastUpdatedMs", lastUpdatedMs),
        "elapsedMs", elapsedMs), "name", name), "description", description),
        "startedAt", startedAt), "isArchived", isArchived), "logs", logs)

InitLoad ==
    /\ \E createdAt \in RawCreatedAt, lastUpdatedMs \in RawLastUpdatedMs,
          elapsedMs \in RawElapsedMs, name \in RawName,
          description \in RawDescription, startedAt \in RawStartedAt,
          isArchived \in RawIsArchived, logs \in RawLogs :
            Booted(Payload(<<RawTask(createdAt, lastUpdatedMs, elapsedMs, name,
                                     description, startedAt, isArchived, logs)>>))
    /\ storageFull = FALSE

NextLoad ==
    \/ ClockAdvance
    \/ Reload
    \/ markChecked(SeedId)

SpecLoad == InitLoad /\ [][NextLoad]_vars

---------------------------------------------------------------------------
(* bootstrapApp() step by step: the six fetches are in flight when the     *)
(* script has been evaluated, each settles on its own, and the function    *)
(* resumes after Promise.all.  The handlers are wired by attachEvents(),   *)
(* the last but one call of bootstrapApp().                                *)

FetchOutcomes == {"ok", "status", "network", "parse"}

\* mutant: fetchJson() without its catch
fetchJsonRethrowing(outcome) == IF outcome = "ok" THEN "json" ELSE "rejected"

\* fetchJson(path, fallback): what its promise resolves to
fetchJson(outcome) == IF outcome = "ok" THEN "json" ELSE "fallback"

\* the tasks of data/data-store.json when it is served (the file is not part
\* of the sources): none, or one record without timestamps
DataStoreFiles == {<<>>, <<RawTask(<<>>, <<>>, <<>>, <<>>, <<>>, <<>>, <<>>, <<>>)>>}

InitBoot ==
    /\ now = ClockStep
    /\ tasks = <<>>
    /\ timers = {}
    /\ intervals = {}
    /\ pendingLog = <<>>
    /\ stored = <<>>
    /\ counter = 0
    /\ taskCode = <<>>
    /\ uuids = 0
    /\ issued = <<>>
    /\ fetches = [file \in Files |-> "pending"]
    /\ attached = FALSE
    /\ view = <<>>
    /\ download = <<>>
    /\ storageFull = FALSE
    /\ opened = NoSessions
    /\ awaiting = <<>>
    /\ credited = [id \in AllIds |-> 0]
    /\ committed = [id \in AllIds |-> 0]

\* one fetchJson() promise settles
FetchSettles(file, outcome) ==
    /\ fetches[file] = "pending"
    /\ fetches' = [fetches EXCEPT ![file] = fetchJson(outcome)]
    /\ UNCHANGED <<now, tasks, timers, intervals, pendingLog, stored, counter,
                   taskCode, uuids, attached, view, download, storageFull, issued,
                   opened, awaiting, credited, committed>>

\* bootstrapApp() after `await Promise.all(...)`, which rejects as soon as one
\* of its promises rejects; fileTasks are the tasks of data-store.json
BootstrapResumes(fileTasks) ==
    LET bootstrapTasks == IF fetches["data-store"] = "json"
                          THEN fileTasks ELSE SeedTasks(ClockStep)
        seededTasks == IF stored # <<>> /\ Len(stored[1].tasks) > 0
                       THEN stored[1].tasks ELSE bootstrapTasks
    IN  /\ ~attached
        /\ \A file \in Files : fetches[file] \in {"json", "fallback"}
        /\ tasks' = NormalizeAll(seededTasks, now)
        /\ attached' = TRUE
        /\ UNCHANGED <<now, timers, intervals, pendingLog, stored, counter,
                       taskCode, uuids, fetches, view, download, storageFull,
                       issued, opened, awaiting, credited, committed>>

NextBoot ==
    \/ ClockAdvance
    \/ \E file \in Files, outcome \in FetchOutcomes : FetchSettles(file, outcome)
    \/ \E fileTasks \in DataStoreFiles : BootstrapResumes(fileTasks)
    \/ attached /\ \E id \in AllIds : startTimer(id)
    \/ attached /\ \E id \in AllIds : stopTimer(id)

SpecBoot == InitBoot /\ [][NextBoot]_vars

---------------------------------------------------------------------------
(* The table: renderTable() with the values of the three filter controls   *)
(* and of the sort control                                                 *)

FilterTypeInputs == {"all", "project", "task"}

FilterCriticalInputs == {"all", "critical", "normal"}

FilterArchivedInputs == {"all", "archived", "active"}

\* sortBy 'name' orders by String.prototype.localeCompare on the names, whose
\* collation is not modelled: it is left out of the inputs
SortByInputs == {"recent", "critical", "type"}

\* String.prototype.toLowerCase, on the characters the inputs use
LowerOf(c) == CASE c = "A" -> "a" [] c = "B" -> "b" [] c = "R" -> "r" [] OTHER -> c

ToLowerCase(str) == [k \in 1..Len(str) |-> LowerOf(str[k])]

\* mutant: the value is taken as it is
KeyVerbatim(task, f) == IF Has(task, f) THEN task[f] ELSE <<>>

\* typeof task[f] === 'string' ? task[f].trim().toLowerCase() : ''
KeyOf(task, f) == IF Has(task, f) THEN ToLowerCase(Trim(task[f])) ELSE <<>>

\* the keys that the Map of counts holds with a count above one
DuplicateKeys(ts, f) ==
    {key \in {KeyOf(ts[i], f) : i \in 1..Len(ts)} :
        /\ key # <<>>
        /\ Cardinality({i \in 1..Len(ts) : KeyOf(ts[i], f) = key}) > 1}

calculateDuplicates(ts) ==
    [names |-> DuplicateKeys(ts, "name"), references |-> DuplicateKeys(ts, "reference")]

\* mutant: one criterion is enough
MatchesAny(task, filterType, filterCritical, filterArchived) ==
    \/ task.type = filterType
    \/ (filterCritical = "critical" /\ task.isCritical)
    \/ (filterArchived = "archived" /\ task.isArchived)

\* the callback of state.tasks.filter
Matches(task, filterType, filterCritical, filterArchived) ==
    LET typeMatch == filterType = "all" \/ task.type = filterType
        criticalMatch ==
            \/ filterCritical = "all"
            \/ IF filterCritical = "critical" THEN task.isCritical ELSE ~task.isCritical
        archiveMatch ==
            \/ filterArchived = "all"
            \/ IF filterArchived = "archived" THEN task.isArchived ELSE ~task.isArchived
    IN  typeMatch /\ criticalMatch /\ archiveMatch

\* x.lastUpdatedMs || 0
UpdatedOrZero(task) == IF Has(task, "lastUpdatedMs") THEN OrZero(task.lastUpdatedMs) ELSE 0

\* Number(task.isCritical)
NumberOf(flag) == IF flag THEN 1 ELSE 0

\* a.type.localeCompare(b.type) on the two types: "project" sorts before "task"
LocaleCompare(x, y) == IF x = y THEN 0 ELSE IF x = "project" THEN -1 ELSE 1

\* mutant: oldest first
sortTasksAscending(a, b, sortBy) == UpdatedOrZero(a) - UpdatedOrZero(b)

sortTasks(a, b, sortBy) ==
    LET recent == UpdatedOrZero(b) - UpdatedOrZero(a)
    IN  CASE sortBy = "critical" ->
                LET first == NumberOf(b.isCritical) - NumberOf(a.isCritical)
                IN  IF first # 0 THEN first ELSE recent
          [] sortBy = "type" ->
                LET first == LocaleCompare(a.type, b.type)
                IN  IF first # 0 THEN first ELSE recent
          [] OTHER -> recent

\* Array.prototype.sort is stable: x goes in front of the first element that
\* the comparator puts after it
SortInsert(sorted, x, sortBy) ==
    LET after == {k \in 1..Len(sorted) : sortTasks(sorted[k], x, sortBy) > 0}
        at == IF after = {} THEN Len(sorted) + 1
              ELSE CHOOSE k \in after : \A m \in after : k <= m
    IN  SubSeq(sorted, 1, at - 1) \o <<x>> \o SubSeq(sorted, at, Len(sorted))

\* [...filtered].sort((a, b) => sortTasks(a, b, sortBy))
RECURSIVE Sort(_, _)
Sort(seq, sortBy) ==
    IF seq = <<>> THEN <<>>
    ELSE SortInsert(Sort(SubSeq(seq, 1, Len(seq) - 1), sortBy), seq[Len(seq)], sortBy)

\* renderTable(): the rows it appends (none when nothing passes the filters)
Render(filterType, filterCritical, filterArchived, sortBy) ==
    LET filtered == SelectSeq(tasks, LAMBDA task :
                        Matches(task, filterType, filterCritical, filterArchived))
    IN  /\ view' = [duplicates |-> calculateDuplicates(tasks),
                    filterType |-> filterType, filterCritical |-> filterCritical,
                    filterArchived |-> filterArchived, sortBy |-> sortBy,
                    filtered |-> filtered, rows |-> Sort(filtered, sortBy)]
        /\ UNCHANGED <<now, tasks, timers, intervals, pendingLog, stored, counter,
                       taskCode, uuids, fetches, attached, download, storageFull,
                       issued, opened, awaiting, credited, committed>>

RenderStep ==
    \E filterType \in FilterTypeInputs, filterCritical \in FilterCriticalInputs,
       filterArchived \in FilterArchivedInputs, sortBy \in SortByInputs :
        Render(filterType, filterCritical, filterArchived, sortBy)

\* the script's variables with `ts` as the task list, nothing else having happened
Showing(ts) ==
    /\ now = ClockStep
    /\ tasks = ts
    /\ timers = {}
    /\ intervals = {}
    /\ pendingLog = <<>>
    /\ stored = Payload(ts)
    /\ counter = 0
    /\ taskCode = <<>>
    /\ uuids = Len(ts)
    /\ issued = <<>>
    /\ fetches = [file \in Files |-> "fallback"]
    /\ attached = TRUE
    /\ view = <<>>
    /\ download = <<>>
    /\ storageFull = FALSE
    /\ opened = NoSessions
    /\ awaiting = <<>>
    /\ credited = [id \in AllIds |-> 0]
    /\ committed = [id \in AllIds |-> 0]

MaxTableTasks == 3

\* the tasks of the table model: <<type, isCritical, isArchived, lastUpdatedMs>>,
\* an empty option being the absent property
TableProfiles ==
    { <<"project", TRUE, FALSE, <<500>>>>, <<"project", FALSE, TRUE, <<300>>>>,
      <<"project", TRUE, FALSE, <<300>>>>, <<"task", TRUE, TRUE, <<>>>>,
      <<"task", FALSE, FALSE, <<500>>>>, <<"task", FALSE, FALSE, <<300>>>> }

TableTask(n, profile) ==
    WithOption([id |-> UuidOf(n), type |-> profile[1], name |-> <<"A">>,
                description |-> <<>>, reference |-> <<"R">>,
                isCritical |-> profile[2], isArchived |-> profile[3],
                isRunning |-> FALSE, elapsedMs |-> 0, logs |-> <<>>,
                lastLog |-> <<>>, createdAt |-> 100, lastChecked |-> <<>>],
               "lastUpdatedMs", profile[4])

InitTable ==
    \E n \in 0..MaxTableTasks : \E profiles \in [1..n -> TableProfiles] :
        Showing([k \in 1..n |-> TableTask(k, profiles[k])])

NextTable == RenderStep

SpecTable == InitTable /\ [][NextTable]_vars

MaxDuplicateTasks == 3

\* the tasks of the duplicates model: <<name, reference, isArchived>>, an
\* empty option being the absent property
DuplicateProfiles ==
    { <<<< <<"A">> >>, << <<"R">> >>, FALSE>>, <<<< <<"a", " ">> >>, << <<" ", "r">> >>, TRUE>>,
      <<<< <<"B">> >>, <<>>, FALSE>>, <<<< <<" ">> >>, << <<>> >>, FALSE>>,
      <<<<>>, << <<"R">> >>, TRUE>>, <<<< <<"A">> >>, << <<" ">> >>, TRUE>>,
      <<<< <<" ", "b">> >>, << <<>> >>, FALSE>>, <<<< <<>> >>, << <<"B">> >>, FALSE>> }

DuplicateTask(n, profile) ==
    WithOption(WithOption(
        [id |-> UuidOf(n), type |-> "task", description |-> <<>>,
         isCritical |-> FALSE, isArchived |-> profile[3], isRunning |-> FALSE,
         elapsedMs |-> 0, logs |-> <<>>, lastLog |-> <<>>, createdAt |-> 100,
         lastUpdatedMs |-> 100, lastChecked |-> <<>>],
        "name", profile[1]), "reference", profile[2])

InitDuplicates ==
    \E n \in 0..MaxDuplicateTasks : \E profiles \in [1..n -> DuplicateProfiles] :
        Showing([k \in 1..n |-> DuplicateTask(k, profiles[k])])

\* the table is rendered with the controls as the page loads them but for the
\* sort key
NextDuplicates == \E sortBy \in SortByInputs : Render("all", "all", "all", sortBy)

SpecDuplicates == InitDuplicates /\ [][NextDuplicates]_vars

---------------------------------------------------------------------------
(* The export: exportTask(task), bound to the Export button of each row.   *)
(* Strings are sequences of characters here, for the quoting to show.      *)

\* value.replace(/"/g, '""')
RECURSIVE ReplaceQuotes(_)
ReplaceQuotes(value) ==
    IF value = <<>> THEN <<>>
    ELSE (IF Head(value) = "\"" THEN <<"\"", "\"">> ELSE <<Head(value)>>)
            \o ReplaceQuotes(Tail(value))

\* mutant: the quotes inside a value stay single
QuotedPlainly(value) == <<"\"">> \o value \o <<"\"">>

\* `"${value.replace(/"/g, '""')}"`
Quoted(value) == <<"\"">> \o ReplaceQuotes(value) \o <<"\"">>

\* Array.prototype.join
RECURSIVE Join(_, _)
Join(parts, separator) ==
    IF parts = <<>> THEN <<>>
    ELSE IF Len(parts) = 1 THEN parts[1]
    ELSE parts[1] \o separator \o Join(Tail(parts), separator)

Headers == << <<"N", "a", "m", "e">>, <<"D", "a", "t", "e">>,
              <<"T", "i", "m", "e", " ", "S", "p", "e", "n", "t">>,
              <<"C", "o", "m", "m", "e", "n", "t">> >>

CsvOf(task) ==
    LET rows == [k \in 1..Len(task.logs) |->
                    <<task.name, task.logs[k].date, task.logs[k].duration,
                      task.logs[k].comment>>]
        line(row) == Join([k \in 1..Len(row) |-> Quoted(row[k])], <<",">>)
        all == <<Headers>> \o rows
    IN  Join([k \in 1..Len(all) |-> line(all[k])], <<"\n">>)

\* value.replace(/\s+/g, '_')
RECURSIVE ReplaceWhitespace(_)
ReplaceWhitespace(value) ==
    IF value = <<>> THEN <<>>
    ELSE IF Head(value) = " " THEN <<"_">> \o ReplaceWhitespace(TrimStart(value))
    ELSE <<Head(value)>> \o ReplaceWhitespace(Tail(value))

FileNameOf(task) == ToLowerCase(ReplaceWhitespace(task.name)) \o <<"_logs.csv">>

\* the click on Export in the row of tasks[i]; the alert of the empty case
\* leaves everything as it is
exportTask(i) ==
    /\ i \in 1..Len(tasks)
    /\ IF Len(tasks[i].logs) = 0 THEN UNCHANGED vars
       ELSE /\ download' = [name |-> FileNameOf(tasks[i]), csv |-> CsvOf(tasks[i])]
            /\ UNCHANGED <<now, tasks, timers, intervals, pendingLog, stored,
                           counter, taskCode, uuids, fetches, attached, view,
                           storageFull, issued, opened, awaiting, credited,
                           committed>>

MaxExportLogs == 2

ExportNames == {<<"A">>, <<"A", " ", " ", "B">>, <<"\"", "A", "\"">>}

\* dates as toLocaleDateString() and durations as formatDuration() write them
ExportDates == {<<"1", "/", "2", "/", "2", "4">>, <<"2", ".", "1", ".", "2", "4">>}

ExportDurations == {<<"0", "0", ":", "1", "0", ":", "0", "0">>}

\* comments as the dialog passes them on: trimmed and not empty
ExportComments == {<<"k">>, <<"\"">>, <<"a", "\"", "b">>, <<"\"", "\"">>, <<"a", ",", "b">>}

ExportEntries ==
    {[date |-> date, duration |-> duration, comment |-> comment] :
        date \in ExportDates, duration \in ExportDurations, comment \in ExportComments}

\* a task with the log `entries`, the newest first, and behind it one without logs
ExportTasks(name, entries) ==
    LET n == Len(entries)
        logs == [k \in 1..n |->
                    [date |-> entries[k].date, duration |-> entries[k].duration,
                     comment |-> entries[k].comment, timestamp |-> 100 * (n + 1 - k)]]
        task(k, itsName, itsLogs) ==
            [id |-> UuidOf(k), type |-> "task", name |-> itsName, description |-> <<>>,
             reference |-> <<>>, isCritical |-> FALSE, isArchived |-> FALSE,
             isRunning |-> FALSE, elapsedMs |-> 600000 * Len(itsLogs), logs |-> itsLogs,
             lastLog |-> <<>>, createdAt |-> 100, lastUpdatedMs |-> 100 * (n + 1),
             lastChecked |-> <<>>]
    IN  <<task(1, name, logs), task(2, <<"B">>, <<>>)>>

InitExport ==
    \E name \in ExportNames, n \in 0..MaxExportLogs : \E entries \in [1..n -> ExportEntries] :
        Showing(ExportTasks(name, entries))

NextExport == \E i \in 1..Len(tasks) : exportTask(i)

SpecExport == InitExport /\ [][NextExport]_vars

---------------------------------------------------------------------------
(* Vocabulary of the claims *)

TaskIndexes == 1..Len(tasks)

\* the task carrying id in the array ts (ids are unique in every reachable state)
TaskOf(ts, id) == ts[FindIndex(ts, id)]

Exists(ts, id) == FindIndex(ts, id) # 0

CreatedByForm(task) == task.id[1] = "uuid"

\* id, elapsedMs and logs of every task, in store order
Accounts(ts) == [i \in 1..Len(ts) |-> <<ts[i].id, ts[i].elapsedMs, ts[i].logs>>]

ConfirmStep == \E value \in CommentInputs : logFormSubmit(value)

StartStep == \E id \in AllIds : startTimer(id)

StopStep == \E id \in AllIds : stopTimer(id)

CheckStep == \E id \in AllIds : markChecked(id)

ArchiveStep == \E id \in AllIds : archiveTask(id)

DeleteStep == \E id \in AllIds, confirmDelete \in BOOLEAN : deleteTask(id, confirmDelete)

CreateStep ==
    \E type \in TypeInputs, nameIn \in NameInputs,
       descriptionIn \in DescriptionInputs,
       referenceIn \in ReferenceInputs, criticalIn \in CriticalInputs :
        TaskFormSubmit(type, nameIn, descriptionIn, referenceIn, criticalIn)

---------------------------------------------------------------------------
(* C1: every task created through the form has elapsedMs equal to the sum  *)
(* of the measured durations (stop time minus start time) of the sessions  *)
(* that were confirmed for it.                                             *)

C1_ElapsedIsSumOfConfirmed ==
    \A i \in TaskIndexes :
        CreatedByForm(tasks[i]) => tasks[i].elapsedMs = credited[tasks[i].id]

\* a created task with two confirmed sessions, not all of them empty
C1_Witness ==
    \E i \in TaskIndexes :
        /\ CreatedByForm(tasks[i])
        /\ committed[tasks[i].id] >= 2
        /\ tasks[i].elapsedMs > 0

---------------------------------------------------------------------------
(* C2: every log entry of every task carries a comment that is non-empty   *)
(* after trimming, and a task has exactly as many log entries as sessions  *)
(* were confirmed for it: a stopped session that was discarded, replaced   *)
(* or lost never becomes a log entry.                                      *)

C2_LogsOnlyWithComment ==
    \A i \in TaskIndexes :
        /\ \A k \in 1..Len(tasks[i].logs) : Trim(tasks[i].logs[k].comment) # <<>>
        /\ Len(tasks[i].logs) = committed[tasks[i].id]

\* one task holds a log entry while a task whose session was discarded holds none
C2_Witness ==
    /\ \E i \in TaskIndexes : Len(tasks[i].logs) >= 1
    /\ \E i \in TaskIndexes :
        tasks[i].lastLog = <<"Discarded session">> /\ tasks[i].logs = <<>>

---------------------------------------------------------------------------
(* C3: a submit of the log form with an empty or whitespace-only comment   *)
(* while a session is pending leaves elapsedMs and logs of every task and  *)
(* the pending session as they were.                                       *)

C3_EmptyCommentChangesNothing ==
    [][\A value \in CommentInputs :
        (pendingLog # <<>> /\ Trim(value) = <<>> /\ logFormSubmit(value))
            => (Accounts(tasks') = Accounts(tasks) /\ pendingLog' = pendingLog)]_vars

\* a session of non-zero length is pending: the state in which the empty comment is refused
C3_Witness ==
    /\ pendingLog # <<>>
    /\ pendingLog[1].duration > 0
    /\ Exists(tasks, pendingLog[1].id)

---------------------------------------------------------------------------
(* C4: across every step, the elapsedMs of a task that exists before and   *)
(* after the step never decreases; it changes only in a confirm step, for  *)
(* the pending task, by exactly the pending duration; discard, start,      *)
(* stop, markChecked and archive steps change no task's elapsedMs.  (A     *)
(* step that leaves every task's id, elapsedMs and logs alone satisfies    *)
(* all of it, which the first disjunct decides cheaply.)                   *)

C4_OnlyConfirmChangesElapsed ==
    [][\/ Accounts(tasks') = Accounts(tasks)
       \/ /\ \A id \in AllIds :
                (Exists(tasks, id) /\ Exists(tasks', id)) =>
                    /\ TaskOf(tasks', id).elapsedMs >= TaskOf(tasks, id).elapsedMs
                    /\ TaskOf(tasks', id).elapsedMs # TaskOf(tasks, id).elapsedMs =>
                        /\ ConfirmStep
                        /\ pendingLog # <<>>
                        /\ pendingLog[1].id = id
                        /\ TaskOf(tasks', id).elapsedMs
                              = TaskOf(tasks, id).elapsedMs + pendingLog[1].duration
          /\ (discardClick \/ StartStep \/ StopStep \/ CheckStep \/ ArchiveStep) =>
                \A i \in TaskIndexes :
                    /\ i <= Len(tasks')
                    /\ tasks'[i].elapsedMs = tasks[i].elapsedMs]_vars

\* a task that kept its confirmed time through a later discarded session
C4_Witness ==
    \E i \in TaskIndexes :
        tasks[i].elapsedMs > 0 /\ tasks[i].lastLog = <<"Discarded session">>

---------------------------------------------------------------------------
(* C6: no task is both archived and running, initially and after every    *)
(* step; startTimer on an archived task changes nothing and archiveTask on *)
(* a running task changes nothing.                                         *)

NoArchivedRunning ==
    \A i \in TaskIndexes : ~(tasks[i].isArchived /\ tasks[i].isRunning)

C6_ArchivedNeverRunning ==
    /\ NoArchivedRunning
    /\ [][/\ NoArchivedRunning'
          /\ \A i \in TaskIndexes :
                /\ (tasks[i].isArchived /\ startTimer(tasks[i].id)) => UNCHANGED vars
                /\ (tasks[i].isRunning /\ archiveTask(tasks[i].id)) => UNCHANGED vars]_vars

\* one task is archived while another one is running
C6_Witness ==
    /\ \E i \in TaskIndexes : tasks[i].isArchived
    /\ \E i \in TaskIndexes : tasks[i].isRunning

---------------------------------------------------------------------------
(* C5: every task is either running with a startedAt, or not running and   *)
(* without a startedAt.                                                    *)

C5_RunningIffStartedAt ==
    \A i \in TaskIndexes : tasks[i].isRunning <=> Has(tasks[i], "startedAt")

---------------------------------------------------------------------------
(* C7: a display tick is live for an id exactly when a task with that id   *)
(* exists and is running, and no id has two live ticks.                    *)

TicksOf(id) == {i \in intervals : i.id = id}

C7_TicksMatchRunning ==
    \A id \in AllIds :
        /\ (TicksOf(id) # {}) <=> (Exists(tasks, id) /\ TaskOf(tasks, id).isRunning)
        /\ Cardinality(TicksOf(id)) <= 1

---------------------------------------------------------------------------
(* C8: while a session is pending for one task, startTimer and stopTimer   *)
(* on any other task leave the pending session as it is.                   *)

C8_PendingSurvivesOtherTasks ==
    [][\A i \in TaskIndexes :
        (/\ pendingLog # <<>>
         /\ tasks[i].id # pendingLog[1].id
         /\ (startTimer(tasks[i].id) \/ stopTimer(tasks[i].id)))
            => pendingLog' = pendingLog]_vars

---------------------------------------------------------------------------
(* C9: in every state with a pending session, a submit of the log form     *)
(* with a non-empty comment ends with no pending session.  (The handler is *)
(* deterministic, so "the submit can end without a pending session" says   *)
(* what it does; states where the model's log bound stops it are left out.)*)

C9_ConfirmClearsPending ==
    (pendingLog # <<>> /\ \A i \in TaskIndexes : Len(tasks[i].logs) < MaxLogs)
        => ENABLED (logFormSubmit(<<" ", "k">>) /\ pendingLog' = <<>>)

---------------------------------------------------------------------------
(* C10: every step of create, stop, confirm, discard, archive, delete or   *)
(* markChecked that changes the state ends with the saved task list equal  *)
(* to the task list in memory.                                             *)

C10_CommitIsSaved ==
    [][(CreateStep \/ StopStep \/ ConfirmStep \/ discardClick \/ ArchiveStep
            \/ DeleteStep \/ CheckStep)
        => stored' = SetItem(stored, Payload(tasks'))]_vars

---------------------------------------------------------------------------
(* C11: from every reachable state, a reload ends with no pending session  *)
(* and with every task not running and without startedAt, whatever the     *)
(* saved payload recorded; the tasks it loads from a saved list carry the  *)
(* elapsedMs saved for them, and the seed tasks it falls back to carry     *)
(* none.  (Reload is deterministic and always possible: "no reload from    *)
(* here ends otherwise" says what every reload does.)                      *)

C11_ReloadCreditsNothing ==
    ~ ENABLED
        /\ Reload
        /\ ~ /\ pendingLog' = <<>>
             /\ \A i \in 1..Len(tasks') :
                    ~tasks'[i].isRunning /\ ~Has(tasks'[i], "startedAt")
             /\ IF stored # <<>> /\ Len(stored[1].tasks) > 0
                THEN /\ Len(tasks') = Len(stored[1].tasks)
                     /\ \A i \in 1..Len(tasks') :
                            /\ tasks'[i].id = stored[1].tasks[i].id
                            /\ tasks'[i].elapsedMs = stored[1].tasks[i].elapsedMs
                ELSE \A i \in 1..Len(tasks') : tasks'[i].elapsedMs = 0

\* the saved list records a running task with confirmed time, the task in
\* memory is stopped and no session is pending: the page was reloaded
C11_Witness ==
    /\ stored # <<>>
    /\ pendingLog = <<>>
    /\ Len(tasks) = Len(stored[1].tasks)
    /\ \E i \in TaskIndexes :
            /\ stored[1].tasks[i].isRunning
            /\ Has(stored[1].tasks[i], "startedAt")
            /\ stored[1].tasks[i].elapsedMs > 0
            /\ ~tasks[i].isRunning

---------------------------------------------------------------------------
(* C12: startTimer(id) for an id that no task carries, or whose task is    *)
(* running or archived, changes nothing: the tasks with all their fields,  *)
(* the pending session, the tick registry with the live ticks and the      *)
(* saved snapshot stay as they are.  (startTimer is deterministic: "it     *)
(* cannot change any of them" says what it does.)                          *)

C12_RefusedStartChangesNothing ==
    \A id \in AllIds :
        LET index == FindIndex(tasks, id)
        IN  (index = 0 \/ tasks[index].isRunning \/ tasks[index].isArchived)
                => ~ ENABLED
                        /\ startTimer(id)
                        /\ ~ UNCHANGED <<tasks, pendingLog, timers, intervals, stored>>

\* a task is running at a later time than it was started, a session is
\* pending and one id is carried by no task
C12_Witness ==
    /\ pendingLog # <<>>
    /\ \E id \in AllIds : ~Exists(tasks, id)
    /\ \E i \in TaskIndexes :
            /\ tasks[i].isRunning
            /\ Has(tasks[i], "startedAt")
            /\ tasks[i].startedAt < now

---------------------------------------------------------------------------
(* C13: archiveTask on a running task changes nothing; on a task that is   *)
(* not running it inverts isArchived and sets lastUpdatedMs to the clock,  *)
(* and leaves every other field and every other task as they are.         *)

C13_ArchiveTogglesIdleOnly ==
    \A i \in TaskIndexes :
        ~ ENABLED
            /\ archiveTask(tasks[i].id)
            /\ ~ IF tasks[i].isRunning
                 THEN UNCHANGED vars
                 ELSE tasks' = [tasks EXCEPT ![i] =
                                    [@ EXCEPT !.isArchived = ~tasks[i].isArchived,
                                              !.lastUpdatedMs = now]]

\* an archived task, touched after its creation, beside a running one
C13_Witness ==
    /\ Len(tasks) = 2
    /\ \E i \in TaskIndexes :
            /\ tasks[i].isArchived
            /\ tasks[i].lastUpdatedMs > tasks[i].createdAt
    /\ \E i \in TaskIndexes : tasks[i].isRunning /\ ~tasks[i].isArchived

---------------------------------------------------------------------------
(* C14: deleteTask on a running task, or one the operator does not         *)
(* confirm, leaves the task list as it is; a confirmed one on a task that  *)
(* is not running removes exactly that task, the others keeping their      *)
(* order; and an id that no task carries comes into the list only as the   *)
(* fresh id of a newly created task, so a deleted id is never found again. *)

C14_DeletedStaysAbsent ==
    [][/\ \A i \in TaskIndexes, confirmDelete \in BOOLEAN :
             deleteTask(tasks[i].id, confirmDelete) =>
                 tasks' = IF tasks[i].isRunning \/ ~confirmDelete
                          THEN tasks ELSE Splice1(tasks, i)
       /\ \A id \in AllIds :
             (~Exists(tasks, id) /\ Exists(tasks', id)) =>
                 (uuids' = uuids + 1 /\ id = UuidOf(uuids'))]_vars

---------------------------------------------------------------------------
(* C15: while localStorage.setItem throws, a step of a handler that saves  *)
(* (create, start, confirm, discard, markChecked, archive, delete) leaves  *)
(* the task list, the pending session and the tick registry as they were.  *)

C15_FailedSaveChangesNothing ==
    [][(storageFull /\ (CreateStep \/ StartStep \/ ConfirmStep \/ discardClick
                            \/ CheckStep \/ ArchiveStep \/ DeleteStep))
        => UNCHANGED <<tasks, pendingLog, timers>>]_vars

---------------------------------------------------------------------------
(* C16: once something has been saved, a reload restores the saved task    *)
(* list (normalized), the empty list included.                             *)

C16_ReloadRestoresSaved ==
    [][(Reload /\ stored # <<>>) => tasks' = NormalizeAll(stored[1].tasks, now)]_vars

---------------------------------------------------------------------------
(* C17: the k-th call of nextTaskCode() returns k, whether a submit or a   *)
(* preview made it and whatever reloads lie between; the counter slot      *)
(* holds the number returned last; the codes returned are pairwise         *)
(* different, and so are the references of the tasks of type task that the *)
(* form created.                                                           *)

GeneratedReference(task) == CreatedByForm(task) /\ task.type = "task"

C17_CounterNeverReuses ==
    /\ \A k \in 1..Len(issued) : issued[k] = k
    /\ counter = Len(issued)
    /\ \A j, k \in 1..Len(issued) :
            j # k => CodeOf(issued[j]) # CodeOf(issued[k])
    /\ \A i, j \in TaskIndexes :
            (i # j /\ GeneratedReference(tasks[i]) /\ GeneratedReference(tasks[j]))
                => tasks[i].reference # tasks[j].reference

\* three codes were handed out, one of them for a preview that was never
\* submitted, and two tasks carry generated references
C17_Witness ==
    /\ Len(issued) = 3
    /\ \E i, j \in TaskIndexes :
            i # j /\ GeneratedReference(tasks[i]) /\ GeneratedReference(tasks[j])

---------------------------------------------------------------------------
(* C18: every task has lastUpdatedMs >= createdAt, also right after a      *)
(* stored payload has been loaded through normalizeTask.                   *)

C18_UpdatedNotBeforeCreated ==
    \A i \in TaskIndexes : tasks[i].lastUpdatedMs >= tasks[i].createdAt

---------------------------------------------------------------------------
(* C19: every task has elapsedMs >= 0, also right after a stored payload   *)
(* has been loaded through normalizeTask.                                  *)

C19_ElapsedNonNegative ==
    \A i \in TaskIndexes : tasks[i].elapsedMs >= 0

---------------------------------------------------------------------------
(* C20: for every record r of the stored payload, normalizeTask applied to *)
(* normalizeTask(r), at the same or at a later clock value, returns        *)
(* normalizeTask(r) field for field.                                       *)

C20_NormalizeIdempotent ==
    \A k \in 1..Len(stored[1].tasks) :
        LET once == normalizeTask(stored[1].tasks[k], now)
        IN  \A t \in {now, now + ClockStep} : normalizeTask(once, t) = once

\* a stored record of a running task without createdAt has been loaded at
\* a later clock value than the first load
C20_Witness ==
    /\ now > ClockStep
    /\ \E k \in 1..Len(stored[1].tasks) :
            /\ Has(stored[1].tasks[k], "startedAt")
            /\ ~Has(stored[1].tasks[k], "createdAt")
            /\ ~Has(stored[1].tasks[k], "name")
            /\ k <= Len(tasks)
            /\ tasks[k].createdAt = now

---------------------------------------------------------------------------
(* C25: the task the pending session names is not running.                 *)

C25_PendingTaskNotRunning ==
    pendingLog # <<>> =>
        \A i \in TaskIndexes : tasks[i].id = pendingLog[1].id => ~tasks[i].isRunning

---------------------------------------------------------------------------
(* C26: the pending session names a task of the task list.                 *)

C26_PendingNamesExistingTask ==
    pendingLog # <<>> => \E i \in TaskIndexes : tasks[i].id = pendingLog[1].id

---------------------------------------------------------------------------
(* C27: in every task's log the timestamps never increase from front to    *)
(* back; across every step a task that stays in the list keeps its log,    *)
(* or the step is a confirm for that task and puts one entry, stamped with *)
(* the clock, in front of the entries it had; and a confirm with a comment *)
(* for a pending task of the list does put that entry.                     *)

Logs(ts) == [i \in 1..Len(ts) |-> <<ts[i].id, ts[i].logs>>]

NewestFirst(ts) ==
    \A i \in 1..Len(ts) : \A k \in 1..(Len(ts[i].logs) - 1) :
        ts[i].logs[k].timestamp >= ts[i].logs[k + 1].timestamp

C27_LogsAppendOnly ==
    [][/\ NewestFirst(tasks')
       /\ \/ Logs(tasks') = Logs(tasks) /\ ~(pendingLog # <<>> /\ pendingLog' = <<>>)
          \/ \A i \in TaskIndexes :
                LET j == FindIndex(tasks', tasks[i].id)
                    confirmed ==
                        /\ pendingLog # <<>>
                        /\ pendingLog[1].id = tasks[i].id
                        /\ \E value \in CommentInputs :
                                Trim(value) # <<>> /\ logFormSubmit(value)
                    inserted ==
                        /\ j # 0
                        /\ Len(tasks'[j].logs) = Len(tasks[i].logs) + 1
                        /\ Tail(tasks'[j].logs) = tasks[i].logs
                        /\ tasks'[j].logs[1].timestamp = now
                IN  /\ confirmed => inserted
                    /\ j # 0 => (tasks'[j].logs = tasks[i].logs \/ (confirmed /\ inserted))]_vars

\* a task with two log entries confirmed at different times
C27_Witness ==
    \E i \in TaskIndexes :
        /\ Len(tasks[i].logs) = 2
        /\ tasks[i].logs[1].timestamp > tasks[i].logs[2].timestamp

---------------------------------------------------------------------------
(* C28: a submit of the task form with an empty name, or of a project with *)
(* an empty reference, changes neither the task list nor the saved         *)
(* payload; any other submit puts one task in front of the unchanged list, *)
(* with the trimmed name, elapsedMs 0, no logs, not running, not archived  *)
(* and createdAt = lastUpdatedMs = the clock.  (The handler is             *)
(* deterministic: "it cannot end otherwise" says what it does.)            *)

C28_CreateInsertsAtFront ==
    \A type \in TypeInputs, nameIn \in NameInputs, descriptionIn \in DescriptionInputs,
       referenceIn \in ReferenceInputs, criticalIn \in CriticalInputs :
        ~ ENABLED
            /\ TaskFormSubmit(type, nameIn, descriptionIn, referenceIn, criticalIn)
            /\ ~ IF Trim(nameIn) = <<>> \/ (type = "project" /\ Trim(referenceIn) = <<>>)
                 THEN UNCHANGED <<tasks, stored>>
                 ELSE /\ Len(tasks') = Len(tasks) + 1
                      /\ Tail(tasks') = tasks
                      /\ tasks'[1].name = Trim(nameIn)
                      /\ tasks'[1].type = type
                      /\ tasks'[1].elapsedMs = 0
                      /\ tasks'[1].logs = <<>>
                      /\ ~tasks'[1].isRunning
                      /\ ~tasks'[1].isArchived
                      /\ tasks'[1].createdAt = now
                      /\ tasks'[1].lastUpdatedMs = now
                      /\ \A i \in TaskIndexes : tasks'[1].id # tasks[i].id

\* a task created just now in front of an older created task and the seed
C28_Witness ==
    /\ Len(tasks) = 3
    /\ CreatedByForm(tasks[1])
    /\ CreatedByForm(tasks[2])
    /\ tasks[1].createdAt = now
    /\ tasks[2].createdAt < now
    /\ stored = Payload(tasks)

---------------------------------------------------------------------------
(* C29: the handlers are wired and the task list is filled only when none  *)
(* of the six fetches is pending any more; every fetch settles to the      *)
(* parsed file or to its default, whatever the outcome; and once all six   *)
(* have settled bootstrapApp() can resume, and ends with the handlers      *)
(* wired and a task list of normalized tasks.                              *)

C29_BootstrapAfterAllFetches ==
    /\ \A file \in Files : fetches[file] \in {"pending", "json", "fallback"}
    /\ attached => \A file \in Files : fetches[file] # "pending"
    /\ ~attached => (tasks = <<>> /\ timers = {} /\ pendingLog = <<>>)
    /\ (~attached /\ \A file \in Files : fetches[file] # "pending") =>
            /\ ENABLED (\E fileTasks \in DataStoreFiles : BootstrapResumes(fileTasks))
            /\ ~ ENABLED
                    /\ \E fileTasks \in DataStoreFiles : BootstrapResumes(fileTasks)
                    /\ ~ /\ attached'
                         /\ \A i \in 1..Len(tasks') :
                                normalizeTask(tasks'[i], now) = tasks'[i]

\* the handlers are wired and a timer runs after one fetch failed and
\* another one brought its file
C29_Witness ==
    /\ attached
    /\ \E file \in Files : fetches[file] = "fallback"
    /\ \E file \in Files : fetches[file] = "json"
    /\ \E i \in TaskIndexes : tasks[i].isRunning

---------------------------------------------------------------------------
(* C21: the duplicates a rendered table was computed with are exactly the  *)
(* trimmed, lower-cased names that at least two tasks carry and, apart     *)
(* from them, exactly such references, archived tasks counting as any      *)
(* other and the empty key never being a duplicate.                        *)

Normal(task, f) == IF Has(task, f) THEN ToLowerCase(Trim(task[f])) ELSE <<>>

CarriedTwice(f) ==
    {key \in {Normal(tasks[i], f) : i \in TaskIndexes} :
        /\ key # <<>>
        /\ \E i, j \in TaskIndexes :
              i # j /\ Normal(tasks[i], f) = key /\ Normal(tasks[j], f) = key}

C21_DuplicatesAreRepeatedKeys ==
    view # <<>> =>
        /\ view.duplicates.names = CarriedTwice("name")
        /\ view.duplicates.references = CarriedTwice("reference")
        /\ <<>> \notin view.duplicates.names \cup view.duplicates.references

\* an archived and an active task of three carry one name in two spellings,
\* and the references have a duplicate that the names do not have
C21_Witness ==
    /\ view # <<>>
    /\ \E i, j \in TaskIndexes :
          /\ Has(tasks[i], "name") /\ Has(tasks[j], "name")
          /\ tasks[i].name # tasks[j].name
          /\ tasks[i].isArchived /\ ~tasks[j].isArchived
          /\ Normal(tasks[i], "name") \in view.duplicates.names
          /\ Normal(tasks[j], "name") = Normal(tasks[i], "name")
    /\ view.duplicates.references # {}
    /\ view.duplicates.references # view.duplicates.names
    /\ Len(tasks) = 3

---------------------------------------------------------------------------
(* C22: the filtered list of a rendered table holds exactly the tasks of   *)
(* the store that pass all three filters, "all" passing every task, each   *)
(* once; and rendering leaves the task list as it is.                      *)

C22_FilterIsConjunction ==
    /\ [](view # <<>> =>
        /\ \A i \in TaskIndexes :
              (\E k \in 1..Len(view.filtered) : view.filtered[k] = tasks[i])
                <=> /\ view.filterType \in {"all", tasks[i].type}
                    /\ \/ view.filterCritical = "all"
                       \/ view.filterCritical = "critical" /\ tasks[i].isCritical
                       \/ view.filterCritical = "normal" /\ ~tasks[i].isCritical
                    /\ \/ view.filterArchived = "all"
                       \/ view.filterArchived = "archived" /\ tasks[i].isArchived
                       \/ view.filterArchived = "active" /\ ~tasks[i].isArchived
        /\ \A k \in 1..Len(view.filtered) :
              \E i \in TaskIndexes : view.filtered[k] = tasks[i]
        /\ \A k, m \in 1..Len(view.filtered) :
              k # m => view.filtered[k].id # view.filtered[m].id)
    /\ [][view' # view => tasks' = tasks /\ stored' = stored]_vars

\* three filters are set and keep some tasks of the store out and some in
C22_Witness ==
    /\ view # <<>>
    /\ view.filterType # "all"
    /\ view.filterCritical # "all"
    /\ view.filterArchived # "all"
    /\ Len(view.filtered) >= 1
    /\ Len(view.filtered) < Len(tasks)

---------------------------------------------------------------------------
(* C23: the rows of a rendered table are the filtered tasks, each once, in *)
(* the order of the comparator chosen: recent by non-increasing            *)
(* lastUpdatedMs (0 when missing); critical with the critical tasks first  *)
(* and then as recent; type with "project" before "task" and then as       *)
(* recent; tasks that compare equal in their store order.                  *)

Updated(task) == IF Has(task, "lastUpdatedMs") THEN task.lastUpdatedMs ELSE 0

\* a may stand right in front of b
InOrder(a, b, sortBy) ==
    LET storeOrder == FindIndex(tasks, a.id) < FindIndex(tasks, b.id)
        asRecent == \/ Updated(a) > Updated(b)
                    \/ Updated(a) = Updated(b) /\ storeOrder
    IN  CASE sortBy = "critical" ->
                \/ a.isCritical /\ ~b.isCritical
                \/ a.isCritical = b.isCritical /\ asRecent
          [] sortBy = "type" ->
                \/ a.type = "project" /\ b.type = "task"
                \/ a.type = b.type /\ asRecent
          [] sortBy = "recent" -> asRecent

C23_SortIsStableByComparator ==
    view # <<>> =>
        /\ Len(view.rows) = Len(view.filtered)
        /\ \A k \in 1..Len(view.filtered) :
              \E m \in 1..Len(view.rows) : view.rows[m] = view.filtered[k]
        /\ \A m \in 1..(Len(view.rows) - 1) :
              InOrder(view.rows[m], view.rows[m + 1], view.sortBy)

\* three rows sorted critical first, in another order than the store's,
\* two of them comparing equal
C23_Witness ==
    /\ view # <<>>
    /\ view.sortBy = "critical"
    /\ Len(view.rows) = 3
    /\ view.rows # view.filtered
    /\ \E m \in 1..2 :
            /\ view.rows[m].isCritical = view.rows[m + 1].isCritical
            /\ Updated(view.rows[m]) = Updated(view.rows[m + 1])

---------------------------------------------------------------------------
(* C24: an export of a task without log entries produces nothing and       *)
(* changes nothing; an export of a task with log entries produces a text   *)
(* that reads back, every field being in double quotes and a doubled quote *)
(* standing for one, as the row of the four titles followed by one row per *)
(* log entry in the order of the task's log, each with the task's name and *)
(* the entry's date, duration and comment; the tasks stay as they are.     *)

\* the value that stands between the double quotes of a field
RECURSIVE Unquoted(_)
Unquoted(inner) ==
    IF inner = <<>> THEN <<>>
    ELSE IF Head(inner) # "\"" THEN <<Head(inner)>> \o Unquoted(Tail(inner))
    ELSE IF Len(inner) >= 2 /\ inner[2] = "\"" THEN <<"\"">> \o Unquoted(Tail(Tail(inner)))
    ELSE <<"stray quote">>

\* the rows of fields that `text` holds from position k on, after the fields
\* of `row` and the rows `rows`; <<>> if a field is not in double quotes
RECURSIVE ReadCsv(_, _, _, _)
ReadCsv(text, k, row, rows) ==
    LET closing == {j \in (k + 1)..Len(text) :
                        /\ text[j] = "\""
                        /\ Cardinality({m \in (k + 1)..j : text[m] = "\""}) % 2 = 1
                        /\ (j = Len(text) \/ text[j + 1] # "\"")}
    IN  IF k > Len(text) \/ text[k] # "\"" \/ closing = {} THEN <<>>
        ELSE LET j == CHOOSE j \in closing : \A m \in closing : j <= m
                 fields == Append(row, Unquoted(SubSeq(text, k + 1, j - 1)))
             IN  IF j = Len(text) THEN Append(rows, fields)
                 ELSE IF text[j + 1] = "," THEN ReadCsv(text, j + 2, fields, rows)
                 ELSE IF text[j + 1] = "\n" THEN ReadCsv(text, j + 2, <<>>, Append(rows, fields))
                 ELSE <<>>

Titles == << <<"N", "a", "m", "e">>, <<"D", "a", "t", "e">>,
             <<"T", "i", "m", "e", " ", "S", "p", "e", "n", "t">>,
             <<"C", "o", "m", "m", "e", "n", "t">> >>

C24_ExportQuotesEveryField ==
    [][\A i \in TaskIndexes : exportTask(i) =>
          IF tasks[i].logs = <<>> THEN UNCHANGED vars
          ELSE /\ tasks' = tasks
               /\ stored' = stored
               /\ download' # <<>>
               /\ ReadCsv(download'.csv, 1, <<>>, <<>>)
                    = <<Titles>> \o [k \in 1..Len(tasks[i].logs) |->
                                        <<tasks[i].name, tasks[i].logs[k].date,
                                          tasks[i].logs[k].duration,
                                          tasks[i].logs[k].comment>>]]_vars

\* a task with a quote in its name and two entries, the newer one with a
\* quote in its comment, has been exported
C24_Witness ==
    /\ download # <<>>
    /\ Len(tasks[1].logs) = 2
    /\ tasks[1].logs[1].timestamp > tasks[1].logs[2].timestamp
    /\ tasks[1].logs[1].comment = <<"a", "\"", "b">>
    /\ tasks[1].logs[2].comment = <<"k">>
    /\ tasks[1].name = <<"\"", "A", "\"">>
    /\ Len(download.csv) > 60

====
